---------------------------- MODULE Spec2Model ----------------------------
(***************************************************************************)
(* A state-machine model of the DeltaRPM reader in src/src/drpm_read.c:     *)
(* read_deltarpm, the two header-phase parsers readdelta_rpmonly and        *)
(* readdelta_standard, and the body parser readdelta_rest.                  *)
(*                                                                          *)
(* One action models one statement group of the C code (a read, a malloc,   *)
(* a check).  The file's content, the collaborators' results and malloc's   *)
(* result are the program's inputs and are chosen nondeterministically from *)
(* small sets.                                                              *)
(*                                                                          *)
(* Machine integers keep their width.  A uint32_t is a pair <<hi, lo>> of   *)
(* 16-bit limbs and a uint64_t a 4-tuple, most significant limb first, so   *)
(* that values such as 0x80000005 or 0xFFFFFFFFFFFFFFFF are represented     *)
(* exactly and arithmetic wraps as it does in C.                            *)
(***************************************************************************)
EXTENDS Integers, Sequences, FiniteSets, TLC

-----------------------------------------------------------------------------
(* Fixed-width unsigned arithmetic on limb sequences.                       *)

Limb == 2^16
Half == 2^15

\* A small natural number as a uint32_t.
W(n) == <<n \div Limb, n % Limb>>

\* The natural number a uint32_t below 2^31 stands for.
ToNat(x) == x[1] * Limb + x[2]

RECURSIVE AddFrom(_, _, _, _)
AddFrom(a, b, i, carry) ==
    IF i = 0 THEN <<>>
    ELSE LET s == a[i] + b[i] + carry
         IN  AddFrom(a, b, i - 1, s \div Limb) \o <<s % Limb>>

\* a + b modulo 2^(16 * Len(a)): unsigned addition of equal-width operands.
Add(a, b) == AddFrom(a, b, Len(a), 0)

\* ~a, bitwise complement.
Not(a) == [i \in 1..Len(a) |-> Limb - 1 - a[i]]

RECURSIVE LtFrom(_, _, _)
LtFrom(a, b, i) ==
    IF i > Len(a) THEN FALSE
    ELSE IF a[i] # b[i] THEN a[i] < b[i]
    ELSE LtFrom(a, b, i + 1)

\* a < b, unsigned comparison of equal-width operands.
Lt(a, b) == LtFrom(a, b, 1)
Gt(a, b) == Lt(b, a)

\* uint32_t -> uint64_t, zero extension (the usual arithmetic conversion).
Zext(x) == <<0, 0>> \o x

\* (int32_t)x -> uint64_t, sign extension.
Sext(x) == IF x[1] >= Half THEN <<Limb - 1, Limb - 1>> \o x ELSE <<0, 0>> \o x

Zero32 == <<0, 0>>
Zero64 == <<0, 0, 0, 0>>
Max32  == <<Limb - 1, Limb - 1>>
Max64  == <<Limb - 1, Limb - 1, Limb - 1, Limb - 1>>

\* x * 2 and x * 4 in uint32_t arithmetic.
Mul2(x) == Add(x, x)
Mul4(x) == Mul2(Mul2(x))

\* INT32_MIN as a bit mask is 0x80000000.
HighBit(x) == x[1] >= Half
XorInt32Min(x) == <<(x[1] + Half) % Limb, x[2]>>

\* TWOS_COMPLEMENT(x): the 32-bit two's complement (negation) of x.
TWOS_COMPLEMENT(x) == Add(Not(x), W(1))

-----------------------------------------------------------------------------
(* Constants of the format.                                                 *)

MAGIC_DRPM == <<25714, 28781>>                      \* 0x6472706D
MAGIC_RPM  == <<60843, 61147>>                      \* 0xEDABEEDB
MAGIC_DLT(x)  == x[1] = 17484 /\ x[2] \div 256 = 84  \* (x >> 8) == 0x444C54
MAGIC_DLT3(x) == x = <<17484, 21555>>               \* x == 0x444C5433

\* "DLT" followed by the byte c.
DLT(c) == <<17484, 84 * 256 + c>>

MD5_DIGEST_LENGTH == 16
RPM_LEADSIG_MIN_LEN == 112
DRPM_TYPE_STANDARD == 0
DRPM_TYPE_RPMONLY == 1
Ascii0 == 48

\* SIZE_MAX of an LP64 host.
SIZE_MAX == Max64


-----------------------------------------------------------------------------
(* Inputs: the values a file can carry in each field, the error kinds a     *)
(* failing read can report.                                                 *)

\* read_be32 on the file descriptor: -1 is IO, a short read is FORMAT.
FdErrs == {"IO", "FORMAT"}
\* Errors of the decompression stream's readers.
StreamErrs == {"IO", "FORMAT"}
\* Errors of decompstrm_init and of the RPM collaborator.
CollabErrs == {"IO", "FORMAT", "MEMORY"}

\* The decompressed stream carries at most this many words of table data.
MaxTableWords == 4

OuterMagics   == {MAGIC_DRPM, MAGIC_RPM, W(0)}
SecondMagics  == {DLT(51), DLT(50)}
\* "DLT/" "DLT0" "DLT1" "DLT2" "DLT3" "DLT4" and a word that is not "DLT?".
VersionMagics == {DLT(47), DLT(48), DLT(49), DLT(50), DLT(51), DLT(52), <<17485, 21555>>}
TgtNevrLens   == {W(11)}
PreAddLens    == {W(4)}
SrcNevrLens   == {W(3)}
SequenceLens  == {W(15), W(16), W(17)}
TgtSizes      == {W(256)}
ParamLens     == {W(0), W(2)}
HeaderLens    == {W(0), W(80)}
LeadsigLens   == {W(111), W(112)}
PayloadOffs   == {W(0)}
\* Table counts: small ones, 0x40000000 (count * 2 * 4 wraps to 0) and
\* 0x80000001 (count * 2 wraps to 2).
Counts        == {W(0), W(1), W(2), <<16384, 0>>, <<32768, 1>>}
\* Unsigned table members.
OffadjEven    == {W(1)}
IntEven       == {W(0)}
IntOdd        == {W(1), W(3)}
ExtOdd        == {W(2), W(5)}
\* Signed-magnitude table members: 3, -5 (0x80000005), -0 (0x80000000).
SignMagWords  == {W(3), <<32768, 5>>, <<32768, 0>>}
ExtDataLens32 == {W(4), Max32}
ExtDataLens64 == {Zext(W(4)), Max64}
AddLens       == {W(0), W(2)}
IntDataLens32 == {W(2), W(4)}
IntDataLens64 == {Zext(W(2)), Zext(W(4))}

-----------------------------------------------------------------------------
(* State.                                                                   *)

VARIABLES
    pc,       \* the statement about to execute
    error,    \* the error code being returned
    delta,    \* struct deltarpm *delta: the record
    mem,      \* contents of the three table buffers
    heap,     \* the allocations that are live
    io,       \* the file descriptor and the decompression stream
    loc,      \* local variables of the parsers
    log,      \* the reads made from the decompression stream, in order
    wire,     \* the table words as they were read, before decoding
    oob       \* writes made outside an allocated buffer

vars == <<pc, error, delta, mem, heap, io, loc, log, wire, oob>>

\* struct deltarpm with every member zero.
ZeroRecord ==
    [filename |-> "NULL", type |-> DRPM_TYPE_STANDARD, comp |-> "none",
     head |-> "NULL", version |-> Zero32, src_nevr |-> "NULL",
     sequence |-> "NULL", sequence_len |-> Zero32, tgt_size |-> Zero32,
     tgt_comp |-> "none", tgt_comp_param_len |-> Zero32,
     tgt_comp_param |-> "NULL", tgt_header_len |-> Zero32,
     offadj_elems_count |-> Zero32, offadj_elems |-> "NULL",
     tgt_leadsig_len |-> Zero32, tgt_leadsig |-> "NULL",
     payload_fmt_off |-> Zero32, int_copies_count |-> Zero32,
     int_copies |-> "NULL", ext_copies_count |-> Zero32,
     ext_copies |-> "NULL", ext_data_len |-> Zero64,
     add_data_len |-> Zero32, add_data |-> "NULL",
     int_data_len |-> Zero64, int_data |-> "NULL"]

\* A record a caller passes without clearing it: null pointers, stale scalars.
StaleRecord ==
    [ZeroRecord EXCEPT !.tgt_size = W(7), !.tgt_comp_param_len = W(7),
                       !.tgt_header_len = W(7), !.offadj_elems_count = W(7)]

PointerFields ==
    {"head", "src_nevr", "sequence", "tgt_comp_param", "offadj_elems",
     "tgt_leadsig", "int_copies", "ext_copies", "add_data", "int_data"}

NoTables == [offadj_elems |-> <<>>, int_copies |-> <<>>, ext_copies |-> <<>>]

ZeroLocals ==
    [rpmst |-> "NULL", version |-> Zero32, tgt_nevr_len |-> Zero32,
     src_nevr_len |-> Zero32, offadj_elems_size |-> Zero32,
     int_copies_size |-> Zero32, ext_copies_size |-> Zero32,
     add_data_len |-> Zero32, i |-> 0, words |-> 0]

Init ==
    /\ pc = "call"
    /\ error = "OK"
    /\ delta \in {ZeroRecord, StaleRecord}
    /\ mem = NoTables
    /\ heap = {}
    /\ io = [fd |-> "none", closes |-> 0, stream |-> "none", destroys |-> 0]
    /\ loc = ZeroLocals
    /\ log = <<>>
    /\ wire = NoTables
    /\ oob = {}

-----------------------------------------------------------------------------
(* read_deltarpm: entry, magic dispatch.                                    *)

\* if (filename == NULL || delta == NULL) return PROG; open(filename).
Call ==
    /\ pc = "call"
    /\ \/ /\ error' = "PROG"
          /\ pc' = "returned"
          /\ UNCHANGED <<delta, io>>
       \/ /\ error' = "IO"
          /\ pc' = "returned"
          /\ UNCHANGED <<delta, io>>
       \/ /\ io' = [io EXCEPT !.fd = "open"]
          /\ delta' = [delta EXCEPT !.filename = "filename"]
          /\ pc' = "read_magic"
          /\ UNCHANGED error
    /\ UNCHANGED <<mem, heap, loc, log, wire, oob>>

\* read_be32(filedesc, &magic); switch (magic).
ReadMagic ==
    /\ pc = "read_magic"
    /\ \/ \E e \in FdErrs :
             /\ error' = e
             /\ pc' = "cleanup_fail"
             /\ UNCHANGED delta
       \/ \E magic \in OuterMagics :
             IF magic = MAGIC_DRPM
             THEN /\ delta' = [delta EXCEPT !.type = DRPM_TYPE_RPMONLY]
                  /\ pc' = "RO_version"
                  /\ UNCHANGED error
             ELSE IF magic = MAGIC_RPM
             THEN /\ delta' = [delta EXCEPT !.type = DRPM_TYPE_STANDARD]
                  /\ pc' = "ST_rpm_read"
                  /\ UNCHANGED error
             ELSE /\ error' = "FORMAT"
                  /\ pc' = "cleanup_fail"
                  /\ UNCHANGED delta
    /\ UNCHANGED <<mem, heap, io, loc, log, wire, oob>>

-----------------------------------------------------------------------------
(* readdelta_rpmonly.  A return with an error goes to read_deltarpm's       *)
(* cleanup_fail; a return with OK goes on to readdelta_rest.                *)

\* read_be32(&version); MAGIC_DLT3; read_be32(&tgt_nevr_len).
RO_version ==
    /\ pc = "RO_version"
    /\ \/ \E e \in FdErrs :
             /\ error' = e
             /\ pc' = "cleanup_fail"
             /\ UNCHANGED loc
       \/ \E v \in SecondMagics :
             IF ~MAGIC_DLT3(v)
             THEN /\ error' = "FORMAT"
                  /\ pc' = "cleanup_fail"
                  /\ UNCHANGED loc
             ELSE \/ \E e \in FdErrs :
                        /\ error' = e
                        /\ pc' = "cleanup_fail"
                        /\ UNCHANGED loc
                  \/ \E n \in TgtNevrLens :
                        /\ loc' = [loc EXCEPT !.tgt_nevr_len = n]
                        /\ pc' = "RO_nevr_alloc"
                        /\ UNCHANGED error
    /\ UNCHANGED <<delta, mem, heap, io, log, wire, oob>>

\* delta->head.tgt_nevr = malloc(tgt_nevr_len + 1).
RO_nevr_alloc ==
    /\ pc = "RO_nevr_alloc"
    /\ \/ /\ error' = "MEMORY"
          /\ pc' = "cleanup_fail"
          /\ UNCHANGED <<delta, heap>>
       \/ /\ delta' = [delta EXCEPT !.head = "tgt_nevr"]
          /\ heap' = heap \cup {"tgt_nevr"}
          /\ pc' = "RO_nevr_read"
          /\ UNCHANGED error
    /\ UNCHANGED <<mem, io, loc, log, wire, oob>>

\* read(filedesc, tgt_nevr, tgt_nevr_len); read_be32(&delta->add_data_len).
RO_nevr_read ==
    /\ pc = "RO_nevr_read"
    /\ \/ \E e \in FdErrs :
             /\ error' = e
             /\ pc' = "cleanup_fail"
             /\ UNCHANGED delta
       \/ \E n \in PreAddLens :
             /\ delta' = [delta EXCEPT !.add_data_len = n]
             /\ pc' = "RO_add_alloc"
             /\ UNCHANGED error
    /\ UNCHANGED <<mem, heap, io, loc, log, wire, oob>>

\* delta->add_data = malloc(delta->add_data_len).
RO_add_alloc ==
    /\ pc = "RO_add_alloc"
    /\ \/ /\ error' = "MEMORY"
          /\ pc' = "cleanup_fail"
          /\ UNCHANGED <<delta, heap>>
       \/ /\ delta' = [delta EXCEPT !.add_data = "add_data"]
          /\ heap' = heap \cup {"add_data"}
          /\ pc' = "RO_add_read"
          /\ UNCHANGED error
    /\ UNCHANGED <<mem, io, loc, log, wire, oob>>

\* read(filedesc, delta->add_data, delta->add_data_len); return OK.
RO_add_read ==
    /\ pc = "RO_add_read"
    /\ \/ \E e \in FdErrs :
             /\ error' = e
             /\ pc' = "cleanup_fail"
       \/ /\ pc' = "R_init"
          /\ UNCHANGED error
    /\ UNCHANGED <<delta, mem, heap, io, loc, log, wire, oob>>

-----------------------------------------------------------------------------
(* readdelta_standard.                                                      *)

\* rpm_read(&rpmst, delta->filename, RPM_ARCHIVE_DONT_READ, ...).
ST_rpm_read ==
    /\ pc = "ST_rpm_read"
    /\ \/ \E e \in CollabErrs :
             /\ error' = e
             /\ pc' = "cleanup_fail"
             /\ UNCHANGED <<heap, loc>>
       \/ /\ loc' = [loc EXCEPT !.rpmst = "rpmst"]
          /\ heap' = heap \cup {"rpmst"}
          /\ pc' = "ST_get_comp"
          /\ UNCHANGED error
    /\ UNCHANGED <<delta, mem, io, log, wire, oob>>

\* rpm_get_comp(rpmst, &delta->tgt_comp); on an error: return error.
ST_get_comp ==
    /\ pc = "ST_get_comp"
    /\ \/ \E e \in CollabErrs :
             /\ error' = e
             /\ pc' = "cleanup_fail"
             /\ UNCHANGED delta
       \/ /\ delta' = [delta EXCEPT !.tgt_comp = "rpm_header_comp"]
          /\ pc' = "ST_lseek"
          /\ UNCHANGED error
    /\ UNCHANGED <<mem, heap, io, loc, log, wire, oob>>

\* lseek(filedesc, rpm_size_full(rpmst), SEEK_SET); delta->head.tgt_rpm = rpmst.
ST_lseek ==
    /\ pc = "ST_lseek"
    /\ \/ /\ error' = "IO"
          /\ pc' = "cleanup_fail"
          /\ UNCHANGED delta
       \/ /\ delta' = [delta EXCEPT !.head = loc.rpmst]
          /\ pc' = "R_init"
          /\ UNCHANGED error
    /\ UNCHANGED <<mem, heap, io, loc, log, wire, oob>>

-----------------------------------------------------------------------------
(* readdelta_rest: helpers.                                                 *)

\* One read from the decompression stream: field f (word i of a table, or
\* -1), n bytes.
Rd(f, i, n) == [f |-> f, i |-> i, n |-> n]

\* A variant of Bail that returns at once instead of going to cleanup.
Bail_ReturnAtOnce(e) == error' = e /\ pc' = "cleanup_fail"

\* goto cleanup with error e.
Bail(e) == error' = e /\ pc' = "R_cleanup"

\* The natural number a uint64_t below 2^31 stands for.
ToNat64(x) == x[3] * Limb + x[4]

\* A variant of SignMagDecode that forgets to clear the sign bit first.
SignMagDecode_NoXor(w) == IF HighBit(w) THEN TWOS_COMPLEMENT(w) ELSE w

\* Signed-magnitude decoding of a table word:
\*   if ((w & INT32_MIN) != 0) w = TWOS_COMPLEMENT(w ^ INT32_MIN);
SignMagDecode(w) == IF HighBit(w) THEN TWOS_COMPLEMENT(XorInt32Min(w)) ELSE w

\* Where a fill loop "for (k = from; k < size; k += 2)" goes when its
\* condition is tested with index k.
LoopPc(k, size, body, exit) == IF Lt(W(k), size) THEN body ELSE exit

\* malloc(bytes) returned a buffer: the number of 32-bit words it holds.
AllocWords(bytes) == ToNat(bytes) \div 4

Uninit == <<-1, -1>>

\* *(table + k) = stored, where the buffer holds Len(mem[t]) words.  A write
\* past the buffer is undefined behaviour: it is recorded in oob and the
\* buffer's own words are left as they were.
TableWrite(t, k, raw, stored) ==
    IF k < Len(mem[t])
    THEN /\ mem' = [mem EXCEPT ![t][k + 1] = stored]
         /\ wire' = [wire EXCEPT ![t][k + 1] = raw]
         /\ UNCHANGED oob
    ELSE /\ oob' = oob \cup {<<t, k>>}
         /\ UNCHANGED <<mem, wire>>

\* After a write at word k of table t: the program goes on to `next`, or,
\* when the write was outside the buffer, may also crash.
AfterWrite(t, k, next) ==
    IF k < Len(mem[t]) THEN pc' = next ELSE pc' \in {next, "crashed"}

\* p = malloc(size * 4) for table t succeeded.
TableAlloc(t, size) ==
    /\ delta' = [delta EXCEPT ![t] = t]
    /\ heap' = heap \cup {t}
    /\ mem' = [mem EXCEPT ![t] = [k \in 1..AllocWords(Mul4(size)) |-> Uninit]]
    /\ wire' = [wire EXCEPT ![t] = [k \in 1..AllocWords(Mul4(size)) |-> Uninit]]

\* One iteration of a fill loop over table t with step 2: read a word from
\* the stream, store it (decoded when the column is signed-magnitude).
FillStep(t, size, pool, signed, body, exit) ==
    \/ \E e \in StreamErrs :
          /\ Bail(e)
          /\ UNCHANGED <<mem, wire, oob, loc, log>>
    \/ /\ loc.words < MaxTableWords
       /\ \E w \in pool :
             /\ TableWrite(t, loc.i, w, IF signed THEN SignMagDecode(w) ELSE w)
             /\ AfterWrite(t, loc.i, LoopPc(loc.i + 2, size, body, exit))
             /\ log' = Append(log, Rd(t, loc.i, 4))
             /\ loc' = [loc EXCEPT
                   !.i = IF Lt(W(loc.i + 2), size) THEN loc.i + 2 ELSE 1 - (loc.i % 2),
                   !.words = loc.words + 1]
             /\ UNCHANGED error

-----------------------------------------------------------------------------
(* readdelta_rest: the fields before the tables.                            *)

\* decompstrm_init(&stream, filedesc, &delta->comp, NULL, NULL, 0).
R_init ==
    /\ pc = "R_init"
    /\ \/ \E e \in CollabErrs :
             /\ error' = e
             /\ pc' = "cleanup_fail"
             /\ UNCHANGED <<delta, io>>
       \/ /\ io' = [io EXCEPT !.stream = "live"]
          /\ delta' = [delta EXCEPT !.comp = "detected"]
          /\ pc' = "R_version"
          /\ UNCHANGED error
    /\ UNCHANGED <<mem, heap, loc, log, wire, oob>>

\* decompstrm_read_be32(stream, &version); MAGIC_DLT; delta->version =
\* version % 256 - '0'; versions below 3 are refused for rpm-only deltas.
R_version ==
    /\ pc = "R_version"
    /\ \/ \E e \in StreamErrs :
             /\ Bail(e)
             /\ UNCHANGED <<delta, loc, log>>
       \/ \E v \in VersionMagics :
             /\ loc' = [loc EXCEPT !.version = v]
             /\ log' = Append(log, Rd("version", -1, 4))
             /\ IF ~MAGIC_DLT(v)
                THEN Bail("FORMAT") /\ UNCHANGED delta
                ELSE LET ver == Add(W(v[2] % 256), TWOS_COMPLEMENT(W(Ascii0)))
                     IN  /\ delta' = [delta EXCEPT !.version = ver]
                         /\ IF Lt(ver, W(3)) /\ delta.type = DRPM_TYPE_RPMONLY
                            THEN Bail("FORMAT")
                            ELSE pc' = "R_src_len" /\ UNCHANGED error
    /\ UNCHANGED <<mem, heap, io, wire, oob>>

\* decompstrm_read_be32(stream, &src_nevr_len).
R_src_len ==
    /\ pc = "R_src_len"
    /\ \/ \E e \in StreamErrs :
             /\ Bail(e)
             /\ UNCHANGED <<loc, log>>
       \/ \E n \in SrcNevrLens :
             /\ loc' = [loc EXCEPT !.src_nevr_len = n]
             /\ log' = Append(log, Rd("src_nevr_len", -1, 4))
             /\ pc' = "R_src_alloc"
             /\ UNCHANGED error
    /\ UNCHANGED <<delta, mem, heap, io, wire, oob>>

\* delta->src_nevr = malloc(src_nevr_len + 1).
R_src_alloc ==
    /\ pc = "R_src_alloc"
    /\ \/ /\ Bail("MEMORY")
          /\ UNCHANGED <<delta, heap>>
       \/ /\ delta' = [delta EXCEPT !.src_nevr = "src_nevr"]
          /\ heap' = heap \cup {"src_nevr"}
          /\ pc' = "R_src_read"
          /\ UNCHANGED error
    /\ UNCHANGED <<mem, io, loc, log, wire, oob>>

\* decompstrm_read(stream, src_nevr_len, delta->src_nevr).
R_src_read ==
    /\ pc = "R_src_read"
    /\ \/ \E e \in StreamErrs :
             /\ Bail(e)
             /\ UNCHANGED log
       \/ /\ log' = Append(log, Rd("src_nevr", -1, ToNat(loc.src_nevr_len)))
          /\ pc' = "R_seq_len"
          /\ UNCHANGED error
    /\ UNCHANGED <<delta, mem, heap, io, loc, wire, oob>>

\* decompstrm_read_be32(stream, &delta->sequence_len) and its check.
R_seq_len ==
    /\ pc = "R_seq_len"
    /\ \/ \E e \in StreamErrs :
             /\ Bail(e)
             /\ UNCHANGED <<delta, log>>
       \/ \E n \in SequenceLens :
             /\ delta' = [delta EXCEPT !.sequence_len = n]
             /\ log' = Append(log, Rd("sequence_len", -1, 4))
             /\ IF \/ Lt(n, W(MD5_DIGEST_LENGTH))
                   \/ (n # W(MD5_DIGEST_LENGTH) /\ delta.type = DRPM_TYPE_RPMONLY)
                THEN Bail("FORMAT")
                ELSE pc' = "R_seq_alloc" /\ UNCHANGED error
    /\ UNCHANGED <<mem, heap, io, loc, wire, oob>>

\* delta->sequence = malloc(delta->sequence_len).
R_seq_alloc ==
    /\ pc = "R_seq_alloc"
    /\ \/ /\ Bail("MEMORY")
          /\ UNCHANGED <<delta, heap>>
       \/ /\ delta' = [delta EXCEPT !.sequence = "sequence"]
          /\ heap' = heap \cup {"sequence"}
          /\ pc' = "R_seq_read"
          /\ UNCHANGED error
    /\ UNCHANGED <<mem, io, loc, log, wire, oob>>

\* decompstrm_read(stream, delta->sequence_len, delta->sequence).
R_seq_read ==
    /\ pc = "R_seq_read"
    /\ \/ \E e \in StreamErrs :
             /\ Bail(e)
             /\ UNCHANGED log
       \/ /\ log' = Append(log, Rd("sequence", -1, ToNat(delta.sequence_len)))
          /\ pc' = "R_md5"
          /\ UNCHANGED error
    /\ UNCHANGED <<delta, mem, heap, io, loc, wire, oob>>

\* decompstrm_read(stream, MD5_DIGEST_LENGTH, delta->tgt_md5);
\* if (delta->version >= 2) ...
R_md5 ==
    /\ pc = "R_md5"
    /\ \/ \E e \in StreamErrs :
             /\ Bail(e)
             /\ UNCHANGED log
       \/ /\ log' = Append(log, Rd("tgt_md5", -1, MD5_DIGEST_LENGTH))
          /\ pc' = IF ~Lt(delta.version, W(2)) THEN "R_tgt_size" ELSE "R_hdr_check"
          /\ UNCHANGED error
    /\ UNCHANGED <<delta, mem, heap, io, loc, wire, oob>>

\* decompstrm_read_be32(&delta->tgt_size), decompstrm_read_be32(&deltarpm_comp),
\* deltarpm_decode_comp(deltarpm_comp, &delta->tgt_comp, &delta->tgt_comp_level).
R_tgt_size ==
    /\ pc = "R_tgt_size"
    /\ \/ \E e \in StreamErrs :
             /\ Bail(e)
             /\ UNCHANGED <<delta, log>>
       \/ \E n \in TgtSizes :
             \/ \E e \in StreamErrs :
                   /\ Bail(e)
                   /\ delta' = [delta EXCEPT !.tgt_size = n]
                   /\ log' = Append(log, Rd("tgt_size", -1, 4))
             \/ \E known \in BOOLEAN :
                   /\ log' = log \o <<Rd("tgt_size", -1, 4), Rd("tgt_comp", -1, 4)>>
                   /\ IF known
                      THEN /\ delta' = [delta EXCEPT !.tgt_size = n,
                                                     !.tgt_comp = "decoded"]
                           /\ pc' = "R_param_len"
                           /\ UNCHANGED error
                      ELSE /\ delta' = [delta EXCEPT !.tgt_size = n]
                           /\ Bail("FORMAT")
    /\ UNCHANGED <<mem, heap, io, loc, wire, oob>>

\* decompstrm_read_be32(stream, &delta->tgt_comp_param_len).
R_param_len ==
    /\ pc = "R_param_len"
    /\ \/ \E e \in StreamErrs :
             /\ Bail(e)
             /\ UNCHANGED <<delta, log>>
       \/ \E n \in ParamLens :
             /\ delta' = [delta EXCEPT !.tgt_comp_param_len = n]
             /\ log' = Append(log, Rd("tgt_comp_param_len", -1, 4))
             /\ pc' = IF Gt(n, Zero32) THEN "R_param_alloc"
                      ELSE IF delta.version = W(3) THEN "R_hdr_len"
                      ELSE "R_hdr_check"
             /\ UNCHANGED error
    /\ UNCHANGED <<mem, heap, io, loc, wire, oob>>

\* delta->tgt_comp_param = malloc(delta->tgt_comp_param_len).
R_param_alloc ==
    /\ pc = "R_param_alloc"
    /\ \/ /\ Bail("MEMORY")
          /\ UNCHANGED <<delta, heap>>
       \/ /\ delta' = [delta EXCEPT !.tgt_comp_param = "tgt_comp_param"]
          /\ heap' = heap \cup {"tgt_comp_param"}
          /\ pc' = "R_param_read"
          /\ UNCHANGED error
    /\ UNCHANGED <<mem, io, loc, log, wire, oob>>

\* decompstrm_read(stream, delta->tgt_comp_param_len, delta->tgt_comp_param);
\* if (delta->version == 3) ...
R_param_read ==
    /\ pc = "R_param_read"
    /\ \/ \E e \in StreamErrs :
             /\ Bail(e)
             /\ UNCHANGED log
       \/ /\ log' = Append(log, Rd("tgt_comp_param", -1, ToNat(delta.tgt_comp_param_len)))
          /\ pc' = IF delta.version = W(3) THEN "R_hdr_len" ELSE "R_hdr_check"
          /\ UNCHANGED error
    /\ UNCHANGED <<delta, mem, heap, io, loc, wire, oob>>

-----------------------------------------------------------------------------
(* readdelta_rest: version 3 header length and offset-adjustment table.     *)

\* decompstrm_read_be32(&delta->tgt_header_len),
\* decompstrm_read_be32(&delta->offadj_elems_count);
\* if (count > 0) offadj_elems_size = count * 2.
R_hdr_len ==
    /\ pc = "R_hdr_len"
    /\ \/ \E e \in StreamErrs :
             /\ Bail(e)
             /\ UNCHANGED <<delta, loc, log>>
       \/ \E h \in HeaderLens :
             \/ \E e \in StreamErrs :
                   /\ Bail(e)
                   /\ delta' = [delta EXCEPT !.tgt_header_len = h]
                   /\ log' = Append(log, Rd("tgt_header_len", -1, 4))
                   /\ UNCHANGED loc
             \/ \E c \in Counts :
                   /\ delta' = [delta EXCEPT !.tgt_header_len = h,
                                             !.offadj_elems_count = c]
                   /\ log' = log \o <<Rd("tgt_header_len", -1, 4),
                                      Rd("offadj_elems_count", -1, 4)>>
                   /\ IF Gt(c, Zero32)
                      THEN /\ loc' = [loc EXCEPT !.offadj_elems_size = Mul2(c)]
                           /\ pc' = "R_offadj_alloc"
                      ELSE /\ pc' = "R_hdr_check"
                           /\ UNCHANGED loc
                   /\ UNCHANGED error
    /\ UNCHANGED <<mem, heap, io, wire, oob>>

\* delta->offadj_elems = malloc(offadj_elems_size * 4).
R_offadj_alloc ==
    /\ pc = "R_offadj_alloc"
    /\ \/ /\ Bail("MEMORY")
          /\ UNCHANGED <<delta, heap, mem, wire, loc>>
       \/ /\ TableAlloc("offadj_elems", loc.offadj_elems_size)
          /\ loc' = [loc EXCEPT !.i = IF Lt(W(0), loc.offadj_elems_size) THEN 0 ELSE 1]
          /\ pc' = LoopPc(0, loc.offadj_elems_size, "R_offadj_even",
                          LoopPc(1, loc.offadj_elems_size, "R_offadj_odd", "R_hdr_check"))
          /\ UNCHANGED error
    /\ UNCHANGED <<io, log, oob>>

\* for (i = 0; i < offadj_elems_size; i += 2) read offadj_elems + i.
R_offadj_even ==
    /\ pc = "R_offadj_even"
    /\ FillStep("offadj_elems", loc.offadj_elems_size, OffadjEven, FALSE,
                "R_offadj_even", "R_offadj_odd")
    /\ UNCHANGED <<delta, heap, io>>

\* for (j = 1; j < offadj_elems_size; j += 2) read offadj_elems + j, decode.
R_offadj_odd ==
    /\ pc = "R_offadj_odd"
    /\ FillStep("offadj_elems", loc.offadj_elems_size, SignMagWords, TRUE,
                "R_offadj_odd", "R_hdr_check")
    /\ UNCHANGED <<delta, heap, io>>

\* if (delta->tgt_header_len == 0 && delta->type == DRPM_TYPE_RPMONLY) FORMAT.
R_hdr_check ==
    /\ pc = "R_hdr_check"
    /\ IF delta.tgt_header_len = Zero32 /\ delta.type = DRPM_TYPE_RPMONLY
       THEN Bail("FORMAT")
       ELSE pc' = "R_leadsig_len" /\ UNCHANGED error
    /\ UNCHANGED <<delta, mem, heap, io, loc, log, wire, oob>>

-----------------------------------------------------------------------------
(* readdelta_rest: lead and signature, copy tables.                         *)

\* decompstrm_read_be32(stream, &delta->tgt_leadsig_len) and its check.
R_leadsig_len ==
    /\ pc = "R_leadsig_len"
    /\ \/ \E e \in StreamErrs :
             /\ Bail(e)
             /\ UNCHANGED <<delta, log>>
       \/ \E n \in LeadsigLens :
             /\ delta' = [delta EXCEPT !.tgt_leadsig_len = n]
             /\ log' = Append(log, Rd("tgt_leadsig_len", -1, 4))
             /\ IF Lt(n, W(RPM_LEADSIG_MIN_LEN))
                THEN Bail("FORMAT")
                ELSE pc' = "R_leadsig_alloc" /\ UNCHANGED error
    /\ UNCHANGED <<mem, heap, io, loc, wire, oob>>

\* delta->tgt_leadsig = malloc(delta->tgt_leadsig_len).
R_leadsig_alloc ==
    /\ pc = "R_leadsig_alloc"
    /\ \/ /\ Bail("MEMORY")
          /\ UNCHANGED <<delta, heap>>
       \/ /\ delta' = [delta EXCEPT !.tgt_leadsig = "tgt_leadsig"]
          /\ heap' = heap \cup {"tgt_leadsig"}
          /\ pc' = "R_leadsig_read"
          /\ UNCHANGED error
    /\ UNCHANGED <<mem, io, loc, log, wire, oob>>

\* decompstrm_read(stream, delta->tgt_leadsig_len, delta->tgt_leadsig).
R_leadsig_read ==
    /\ pc = "R_leadsig_read"
    /\ \/ \E e \in StreamErrs :
             /\ Bail(e)
             /\ UNCHANGED log
       \/ /\ log' = Append(log, Rd("tgt_leadsig", -1, ToNat(delta.tgt_leadsig_len)))
          /\ pc' = "R_counts"
          /\ UNCHANGED error
    /\ UNCHANGED <<delta, mem, heap, io, loc, wire, oob>>

\* A variant of CountFields that reads the two counts in the other order.
CountFields_Swapped == <<"payload_fmt_off", "ext_copies_count", "int_copies_count">>

\* The reads of "payload_fmt_off", "int_copies_count" and "ext_copies_count"
\* are made in this order, one after the other.
CountFields == <<"payload_fmt_off", "int_copies_count", "ext_copies_count">>

\* The record after the first k of the three fields were read as vals.
WithCounts(k, vals) ==
    [f \in DOMAIN delta |->
        IF \E j \in 1..k : CountFields[j] = f
        THEN vals[CHOOSE j \in 1..k : CountFields[j] = f]
        ELSE delta[f]]

\* decompstrm_read_be32(&delta->payload_fmt_off) || (&delta->int_copies_count)
\* || (&delta->ext_copies_count); int_copies_size = int_copies_count * 2;
\* ext_copies_size = ext_copies_count * 2.
R_counts ==
    /\ pc = "R_counts"
    /\ \E p \in PayloadOffs, ci \in Counts, ce \in Counts :
          LET vals == <<p, ci, ce>>
              reads(k) == [j \in 1..k |-> Rd(CountFields[j], -1, 4)]
          IN  \/ \E k \in 0..2, e \in StreamErrs :
                    /\ Bail(e)
                    /\ delta' = WithCounts(k, vals)
                    /\ log' = log \o reads(k)
                    /\ UNCHANGED loc
              \/ /\ delta' = WithCounts(3, vals)
                 /\ log' = log \o reads(3)
                 /\ loc' = [loc EXCEPT !.int_copies_size = Mul2(ci),
                                       !.ext_copies_size = Mul2(ce),
                                       !.i = 0]
                 /\ pc' = IF Gt(Mul2(ci), Zero32) THEN "R_int_alloc"
                          ELSE IF Gt(Mul2(ce), Zero32) THEN "R_ext_alloc"
                          ELSE "R_ext_data_len"
                 /\ UNCHANGED error
    /\ UNCHANGED <<mem, heap, io, wire, oob>>

\* delta->int_copies = malloc(int_copies_size * 4).
R_int_alloc ==
    /\ pc = "R_int_alloc"
    /\ \/ /\ Bail("MEMORY")
          /\ UNCHANGED <<delta, heap, mem, wire>>
       \/ /\ TableAlloc("int_copies", loc.int_copies_size)
          /\ pc' = "R_int_even"
          /\ UNCHANGED error
    /\ UNCHANGED <<io, loc, log, oob>>

\* for (i = 0; i < int_copies_size; i += 2) read int_copies + i.
R_int_even ==
    /\ pc = "R_int_even"
    /\ FillStep("int_copies", loc.int_copies_size, IntEven, FALSE,
                "R_int_even", "R_int_odd")
    /\ UNCHANGED <<delta, heap, io>>

\* for (j = 1; j < int_copies_size; j += 2) read int_copies + j;
\* if (ext_copies_size > 0) ...
R_int_odd ==
    /\ pc = "R_int_odd"
    /\ FillStep("int_copies", loc.int_copies_size, IntOdd, FALSE, "R_int_odd",
                IF Gt(loc.ext_copies_size, Zero32) THEN "R_ext_alloc"
                ELSE "R_ext_data_len")
    /\ UNCHANGED <<delta, heap, io>>

\* delta->ext_copies = malloc(ext_copies_size * 4).
R_ext_alloc ==
    /\ pc = "R_ext_alloc"
    /\ \/ /\ Bail("MEMORY")
          /\ UNCHANGED <<delta, heap, mem, wire>>
       \/ /\ TableAlloc("ext_copies", loc.ext_copies_size)
          /\ pc' = "R_ext_even"
          /\ UNCHANGED error
    /\ UNCHANGED <<io, loc, log, oob>>

\* for (i = 0; i < ext_copies_size; i += 2) read ext_copies + i, decode.
R_ext_even ==
    /\ pc = "R_ext_even"
    /\ FillStep("ext_copies", loc.ext_copies_size, SignMagWords, TRUE,
                "R_ext_even", "R_ext_odd")
    /\ UNCHANGED <<delta, heap, io>>

\* for (j = 1; j < ext_copies_size; j += 2) read ext_copies + j.
R_ext_odd ==
    /\ pc = "R_ext_odd"
    /\ FillStep("ext_copies", loc.ext_copies_size, ExtOdd, FALSE,
                "R_ext_odd", "R_ext_data_len")
    /\ UNCHANGED <<delta, heap, io>>

-----------------------------------------------------------------------------
(* readdelta_rest: data lengths, additional data, internal data.            *)

\* version == 3: decompstrm_read_be64(&delta->ext_data_len);
\* otherwise decompstrm_read_be32(&ext_data_32), widened.
R_ext_data_len ==
    /\ pc = "R_ext_data_len"
    /\ \/ \E e \in StreamErrs :
             /\ Bail(e)
             /\ UNCHANGED <<delta, log>>
       \/ /\ delta.version = W(3)
          /\ \E n \in ExtDataLens64 :
                /\ delta' = [delta EXCEPT !.ext_data_len = n]
                /\ log' = Append(log, Rd("ext_data_len", -1, 8))
          /\ pc' = "R_add_len"
          /\ UNCHANGED error
       \/ /\ delta.version # W(3)
          /\ \E n \in ExtDataLens32 :
                /\ delta' = [delta EXCEPT !.ext_data_len = Zext(n)]
                /\ log' = Append(log, Rd("ext_data_len", -1, 4))
          /\ pc' = "R_add_len"
          /\ UNCHANGED error
    /\ UNCHANGED <<mem, heap, io, loc, wire, oob>>

\* decompstrm_read_be32(stream, &add_data_len); a non-empty block is refused
\* for rpm-only deltas.
R_add_len ==
    /\ pc = "R_add_len"
    /\ \/ \E e \in StreamErrs :
             /\ Bail(e)
             /\ UNCHANGED <<loc, log>>
       \/ \E n \in AddLens :
             /\ loc' = [loc EXCEPT !.add_data_len = n]
             /\ log' = Append(log, Rd("add_data_len", -1, 4))
             /\ IF Gt(n, Zero32)
                THEN IF delta.type = DRPM_TYPE_RPMONLY
                     THEN Bail("FORMAT")
                     ELSE pc' = "R_add_alloc" /\ UNCHANGED error
                ELSE pc' = "R_int_data_len" /\ UNCHANGED error
    /\ UNCHANGED <<delta, mem, heap, io, wire, oob>>

\* delta->add_data = malloc(add_data_len).
R_add_alloc ==
    /\ pc = "R_add_alloc"
    /\ \/ /\ Bail("MEMORY")
          /\ UNCHANGED <<delta, heap>>
       \/ /\ delta' = [delta EXCEPT !.add_data = "add_data"]
          /\ heap' = heap \cup {"add_data"}
          /\ pc' = "R_add_read"
          /\ UNCHANGED error
    /\ UNCHANGED <<mem, io, loc, log, wire, oob>>

\* decompstrm_read(stream, add_data_len, delta->add_data);
\* delta->add_data_len = add_data_len.
R_add_read ==
    /\ pc = "R_add_read"
    /\ \/ \E e \in StreamErrs :
             /\ Bail(e)
             /\ UNCHANGED <<delta, log>>
       \/ /\ log' = Append(log, Rd("add_data", -1, ToNat(loc.add_data_len)))
          /\ delta' = [delta EXCEPT !.add_data_len = loc.add_data_len]
          /\ pc' = "R_int_data_len"
          /\ UNCHANGED error
    /\ UNCHANGED <<mem, heap, io, loc, wire, oob>>

\* int_data_len after the read of n: OVERFLOW above SIZE_MAX, the buffer
\* when the length is positive, the validation walks otherwise.
AfterIntDataLen(n) ==
    IF Gt(n, SIZE_MAX) THEN Bail("OVERFLOW")
    ELSE /\ pc' = IF Gt(n, Zero64) THEN "R_int_data_alloc" ELSE "R_walk_int"
         /\ UNCHANGED error

\* version == 3: decompstrm_read_be64(&delta->int_data_len);
\* otherwise decompstrm_read_be32(&int_data_32), widened.
R_int_data_len ==
    /\ pc = "R_int_data_len"
    /\ \/ \E e \in StreamErrs :
             /\ Bail(e)
             /\ UNCHANGED <<delta, log>>
       \/ /\ delta.version = W(3)
          /\ \E n \in IntDataLens64 :
                /\ delta' = [delta EXCEPT !.int_data_len = n]
                /\ log' = Append(log, Rd("int_data_len", -1, 8))
                /\ AfterIntDataLen(n)
       \/ /\ delta.version # W(3)
          /\ \E n \in IntDataLens32 :
                /\ delta' = [delta EXCEPT !.int_data_len = Zext(n)]
                /\ log' = Append(log, Rd("int_data_len", -1, 4))
                /\ AfterIntDataLen(Zext(n))
    /\ UNCHANGED <<mem, heap, io, loc, wire, oob>>

\* delta->int_data.bytes = malloc(delta->int_data_len).
R_int_data_alloc ==
    /\ pc = "R_int_data_alloc"
    /\ \/ /\ Bail("MEMORY")
          /\ UNCHANGED <<delta, heap>>
       \/ /\ delta' = [delta EXCEPT !.int_data = "int_data"]
          /\ heap' = heap \cup {"int_data"}
          /\ pc' = "R_int_data_read"
          /\ UNCHANGED error
    /\ UNCHANGED <<mem, io, loc, log, wire, oob>>

\* decompstrm_read(stream, delta->int_data_len, delta->int_data.bytes).
R_int_data_read ==
    /\ pc = "R_int_data_read"
    /\ \/ \E e \in StreamErrs :
             /\ Bail(e)
             /\ UNCHANGED log
       \/ /\ log' = Append(log, Rd("int_data", -1, ToNat64(delta.int_data_len)))
          /\ pc' = "R_walk_int"
          /\ UNCHANGED error
    /\ UNCHANGED <<delta, mem, heap, io, loc, wire, oob>>

-----------------------------------------------------------------------------
(* readdelta_rest: the validation walks and cleanup.                        *)

\* A variant of IntWalk that compares each second member alone (off = t[i]).
RECURSIVE IntWalk_NoSum(_, _, _, _, _)
IntWalk_NoSum(t, i, size, off, len) ==
    IF ~Lt(W(i), size) THEN TRUE
    ELSE IF Gt(Zext(t[i + 1]), len) THEN FALSE
    ELSE IntWalk_NoSum(t, i + 2, size, off, len)

\* off = 0; for (i = 1; i < size; i += 2) { off += t[i]; if (off > len) FORMAT }
\* from index i with running total off: TRUE when no check fails.
RECURSIVE IntWalk(_, _, _, _, _)
IntWalk(t, i, size, off, len) ==
    IF ~Lt(W(i), size) THEN TRUE
    ELSE LET off1 == Add(off, Zext(t[i + 1]))
         IN  IF Gt(off1, len) THEN FALSE
             ELSE IntWalk(t, i + 2, size, off1, len)

\* off = 0; for (i = 0; i < size; i += 2) { off += (int32_t)t[i];
\* if (off > len) FORMAT; off += t[i + 1]; if (off == 0 || off > len) FORMAT }
RECURSIVE ExtWalk(_, _, _, _, _)
ExtWalk(t, i, size, off, len) ==
    IF ~Lt(W(i), size) THEN TRUE
    ELSE LET off1 == Add(off, Sext(t[i + 1]))
             off2 == Add(off1, Zext(t[i + 2]))
         IN  IF Gt(off1, len) THEN FALSE
             ELSE IF off2 = Zero64 \/ Gt(off2, len) THEN FALSE
             ELSE ExtWalk(t, i + 2, size, off2, len)

\* checking internal copies against internal data length.
R_walk_int ==
    /\ pc = "R_walk_int"
    /\ IF IntWalk(mem.int_copies, 1, loc.int_copies_size, Zero64, delta.int_data_len)
       THEN pc' = "R_walk_ext" /\ UNCHANGED error
       ELSE Bail("FORMAT")
    /\ UNCHANGED <<delta, mem, heap, io, loc, log, wire, oob>>

\* checking external copies against external data length.
R_walk_ext ==
    /\ pc = "R_walk_ext"
    /\ IF ExtWalk(mem.ext_copies, 0, loc.ext_copies_size, Zero64, delta.ext_data_len)
       THEN pc' = "R_cleanup" /\ UNCHANGED error
       ELSE Bail("FORMAT")
    /\ UNCHANGED <<delta, mem, heap, io, loc, log, wire, oob>>

\* cleanup: decompstrm_destroy(&stream); return error.  In read_deltarpm an
\* error goes to cleanup_fail, OK to cleanup.
R_cleanup ==
    /\ pc = "R_cleanup"
    /\ io' = [io EXCEPT !.stream = "destroyed", !.destroys = io.destroys + 1]
    /\ pc' = IF error = "OK" THEN "cleanup" ELSE "cleanup_fail"
    /\ UNCHANGED <<error, delta, mem, heap, loc, log, wire, oob>>

-----------------------------------------------------------------------------
(* read_deltarpm: cleanup_fail, cleanup.                                    *)

\* free_deltarpm(delta): everything the record points to is released and the
\* record is zeroed.
FreeDeltarpm ==
    /\ heap' = heap \ {delta[f] : f \in PointerFields}
    /\ delta' = ZeroRecord
    /\ mem' = NoTables

\* cleanup_fail: free_deltarpm(delta).
CleanupFail ==
    /\ pc = "cleanup_fail"
    /\ FreeDeltarpm
    /\ pc' = "cleanup"
    /\ UNCHANGED <<error, io, loc, log, wire, oob>>

\* close(filedesc).
CloseFd ==
    io' = [io EXCEPT !.fd = "closed", !.closes = io.closes + 1]

\* cleanup: close(filedesc); return error.
Cleanup ==
    /\ pc = "cleanup"
    /\ CloseFd
    /\ pc' = "returned"
    /\ UNCHANGED <<error, delta, mem, heap, loc, log, wire, oob>>

-----------------------------------------------------------------------------

Next ==
    \/ Call \/ ReadMagic
    \/ RO_version \/ RO_nevr_alloc \/ RO_nevr_read \/ RO_add_alloc \/ RO_add_read
    \/ ST_rpm_read \/ ST_get_comp \/ ST_lseek
    \/ R_init \/ R_version \/ R_src_len \/ R_src_alloc \/ R_src_read
    \/ R_seq_len \/ R_seq_alloc \/ R_seq_read \/ R_md5
    \/ R_tgt_size \/ R_param_len \/ R_param_alloc \/ R_param_read
    \/ R_hdr_len \/ R_offadj_alloc \/ R_offadj_even \/ R_offadj_odd \/ R_hdr_check
    \/ R_leadsig_len \/ R_leadsig_alloc \/ R_leadsig_read \/ R_counts
    \/ R_int_alloc \/ R_int_even \/ R_int_odd
    \/ R_ext_alloc \/ R_ext_even \/ R_ext_odd
    \/ R_ext_data_len \/ R_add_len \/ R_add_alloc \/ R_add_read
    \/ R_int_data_len \/ R_int_data_alloc \/ R_int_data_read
    \/ R_walk_int \/ R_walk_ext \/ R_cleanup
    \/ CleanupFail \/ Cleanup

Spec == Init /\ [][Next]_vars

-----------------------------------------------------------------------------
(* Properties.                                                              *)

Returned   == pc = "returned"
Opened     == io.fd # "none"
ReturnedOK == pc = "returned" /\ error = "OK"
Was(f)     == \E k \in 1..Len(log) : log[k].f = f

\* C1: once open() succeeded, read_deltarpm returns with the file descriptor
\* closed exactly once, whatever the exit path; and a decompression stream
\* that decompstrm_init constructed is destroyed (once) by the time
\* readdelta_rest has returned.
C1_FdClosedStreamDestroyed ==
    /\ io.closes <= 1
    /\ io.destroys <= 1
    /\ (Returned /\ Opened) => (io.fd = "closed" /\ io.closes = 1)
    /\ pc \in {"cleanup_fail", "cleanup", "returned"} =>
          (io.stream # "live" /\ (io.stream = "destroyed" <=> io.destroys = 1))

\* A parse that failed inside the body parser has returned.
C1_Witness ==
    Returned /\ error = "FORMAT" /\ Was("sequence_len")
             /\ io.closes = 1 /\ io.destroys = 1

\* C2: whenever read_deltarpm returns an error after the file was opened,
\* the record is zeroed and nothing acquired during the parse is still
\* allocated, the RPM handle of readdelta_standard included.
C2_ErrorReleasesEverything ==
    (Returned /\ Opened /\ error # "OK") => (delta = ZeroRecord /\ heap = {})

\* C3: the version decoded from a "DLT?" magic is 1, 2 or 3: the body parser
\* goes past the version check only with such a version, and a successful
\* read_deltarpm leaves version in {1, 2, 3}.
C3_VersionIn123 ==
    (pc = "R_src_len" \/ ReturnedOK) => delta.version \in {W(1), W(2), W(3)}

\* C4: a successful parse of an rpm-only delta has version 3, sequence_len
\* 16, a tgt_header_len above zero that was read from the stream, and an
\* in-stream additional-data length of zero.
C4_RpmOnlyInvariants ==
    (ReturnedOK /\ delta.type = DRPM_TYPE_RPMONLY) =>
        /\ delta.version = W(3)
        /\ delta.sequence_len = W(MD5_DIGEST_LENGTH)
        /\ Gt(delta.tgt_header_len, Zero32)
        /\ Was("tgt_header_len")
        /\ loc.add_data_len = Zero32

\* The running total of the external-copy walk after k pairs, as a 64-bit
\* two's-complement number (exact: the members are 32 bits wide).
RECURSIVE ExtSum(_)
ExtSum(k) ==
    IF k = 0 THEN Zero64
    ELSE Add(Add(ExtSum(k - 1), Sext(mem.ext_copies[2 * k - 1])),
             Zext(mem.ext_copies[2 * k]))

\* C5: for every accepted input the signed running total of the
\* external-copy walk is above zero and at most ext_data_len after every
\* complete pair.
C5_ExtRunningTotalInRange ==
    ReturnedOK =>
        \A k \in 1..(Len(mem.ext_copies) \div 2) :
            /\ ExtSum(k)[1] < Half
            /\ ExtSum(k) # Zero64
            /\ ~Gt(ExtSum(k), delta.ext_data_len)

\* The running sum of the second members of the first k internal-copy pairs.
RECURSIVE IntSum(_)
IntSum(k) ==
    IF k = 0 THEN Zero64
    ELSE Add(IntSum(k - 1), Zext(mem.int_copies[2 * k]))

IntPairs == Len(mem.int_copies) \div 2
IntSumsInRange ==
    \A k \in 1..IntPairs :
        ~Lt(IntSum(k), IntSum(k - 1)) /\ ~Gt(IntSum(k), delta.int_data_len)

\* Every field up to int_data was read, so the validation walks are run.
WalksReached ==
    /\ Len(log) > 0
    /\ \/ log[Len(log)].f = "int_data"
       \/ log[Len(log)].f = "int_data_len" /\ delta.int_data_len = Zero64

Magnitude(v) == <<v[1] % Half, v[2]>>

\* A two's-complement word put back into sign-bit-plus-magnitude form.
SignMagEncode(s) ==
    IF HighBit(s) THEN XorInt32Min(TWOS_COMPLEMENT(s)) ELSE s

\* The signed-magnitude columns: odd words of offadj_elems, even words of
\* ext_copies (k counts from 1 here).
SignedSlots ==
    {<<"offadj_elems", k>> : k \in {j \in DOMAIN mem.offadj_elems : j % 2 = 0}}
    \cup {<<"ext_copies", k>> : k \in {j \in DOMAIN mem.ext_copies : j % 2 = 1}}
Decoded(slot) == mem[slot[1]][slot[2]] # Uninit
WireOf(slot)  == wire[slot[1]][slot[2]]
StoredOf(slot) == mem[slot[1]][slot[2]]

NegativeZero == <<Half, 0>>

\* C7 as stated: the stored word is v when the high bit is clear and the
\* two's complement of v & 0x7FFFFFFF when it is set, and encoding the stored
\* word gives back v for every wire value v, 0x80000000 included.
C7_RoundTripEveryWord ==
    \A slot \in SignedSlots :
        Decoded(slot) =>
            /\ StoredOf(slot) = IF HighBit(WireOf(slot))
                                THEN TWOS_COMPLEMENT(Magnitude(WireOf(slot)))
                                ELSE WireOf(slot)
            /\ SignMagEncode(StoredOf(slot)) = WireOf(slot)

\* C7 amended: as above, but encoding the stored word gives back v for every
\* wire value v except 0x80000000, which is stored as 0 and encodes as 0.
C7_RoundTripExceptNegativeZero ==
    \A slot \in SignedSlots :
        Decoded(slot) =>
            /\ StoredOf(slot) = IF HighBit(WireOf(slot))
                                THEN TWOS_COMPLEMENT(Magnitude(WireOf(slot)))
                                ELSE WireOf(slot)
            /\ WireOf(slot) # NegativeZero =>
                  SignMagEncode(StoredOf(slot)) = WireOf(slot)
            /\ WireOf(slot) = NegativeZero =>
                  StoredOf(slot) = Zero32 /\ SignMagEncode(StoredOf(slot)) = Zero32

\* 0x80000005 was read into a signed column of each table and stored as -5.
C7_Witness ==
    /\ Len(mem.offadj_elems) = 2 /\ Len(mem.ext_copies) = 2
    /\ wire.offadj_elems[2] = <<Half, 5>>
    /\ mem.offadj_elems[2] = <<Limb - 1, Limb - 5>>
    /\ wire.ext_copies[1] = <<Half, 5>>
    /\ mem.ext_copies[1] = <<Limb - 1, Limb - 5>>

\* The reads of a table of n words filled in two passes: the even words
\* (first members) in order, then the odd words (second members).
TableReads(t, n) ==
    [k \in 1..n |-> IF k <= n \div 2 THEN Rd(t, 2 * (k - 1), 4)
                    ELSE Rd(t, 2 * (k - n \div 2) - 1, 4)]

\* The number of words the parser reads for a table of count pairs:
\* count * 2 in uint32_t arithmetic.
TableWords(count) == ToNat(Mul2(count))

LayoutHead ==
    <<Rd("version", -1, 4), Rd("src_nevr_len", -1, 4),
      Rd("src_nevr", -1, ToNat(loc.src_nevr_len)),
      Rd("sequence_len", -1, 4), Rd("sequence", -1, ToNat(delta.sequence_len)),
      Rd("tgt_md5", -1, MD5_DIGEST_LENGTH)>>
    \o (IF Lt(delta.version, W(2)) THEN <<>>
        ELSE <<Rd("tgt_size", -1, 4), Rd("tgt_comp", -1, 4),
               Rd("tgt_comp_param_len", -1, 4)>>
             \o (IF delta.tgt_comp_param_len = Zero32 THEN <<>>
                 ELSE <<Rd("tgt_comp_param", -1, ToNat(delta.tgt_comp_param_len))>>)
             \o (IF delta.version # W(3) THEN <<>>
                 ELSE <<Rd("tgt_header_len", -1, 4), Rd("offadj_elems_count", -1, 4)>>
                      \o TableReads("offadj_elems", TableWords(delta.offadj_elems_count))))
    \o <<Rd("tgt_leadsig_len", -1, 4),
         Rd("tgt_leadsig", -1, ToNat(delta.tgt_leadsig_len)),
         Rd("payload_fmt_off", -1, 4)>>

LayoutTail ==
    <<Rd("ext_data_len", -1, IF delta.version = W(3) THEN 8 ELSE 4),
      Rd("add_data_len", -1, 4)>>
    \o (IF loc.add_data_len = Zero32 THEN <<>>
        ELSE <<Rd("add_data", -1, ToNat(loc.add_data_len))>>)
    \o <<Rd("int_data_len", -1, IF delta.version = W(3) THEN 8 ELSE 4)>>
    \o (IF delta.int_data_len = Zero64 THEN <<>>
        ELSE <<Rd("int_data", -1, ToNat64(delta.int_data_len))>>)

\* Each count followed at once by its table.
LayoutCountThenTable ==
    LayoutHead
    \o <<Rd("int_copies_count", -1, 4)>>
    \o TableReads("int_copies", TableWords(delta.int_copies_count))
    \o <<Rd("ext_copies_count", -1, 4)>>
    \o TableReads("ext_copies", TableWords(delta.ext_copies_count))
    \o LayoutTail

\* Both counts, then both tables.
LayoutCountsThenTables ==
    LayoutHead
    \o <<Rd("int_copies_count", -1, 4), Rd("ext_copies_count", -1, 4)>>
    \o TableReads("int_copies", TableWords(delta.int_copies_count))
    \o TableReads("ext_copies", TableWords(delta.ext_copies_count))
    \o LayoutTail

RECURSIVE Bytes(_)
Bytes(l) == IF l = <<>> THEN 0 ELSE l[1].n + Bytes(Tail(l))

C9_UncarriedFieldsAreZero ==
    /\ (ReturnedOK /\ Lt(delta.version, W(3))) =>
          (delta.tgt_header_len = Zero32 /\ delta.offadj_elems_count = Zero32)
    /\ (ReturnedOK /\ delta.version = W(1)) =>
          /\ delta.tgt_size = Zero32
          /\ delta.tgt_comp_param_len = Zero32
          /\ delta.tgt_comp_param = "NULL"
    /\ (pc = "R_hdr_check" /\ delta.type = DRPM_TYPE_RPMONLY) =>
          (delta.tgt_header_len = Zero32 \/ Was("tgt_header_len"))

\* C10: every word the parser writes to or reads from a table lies inside
\* the buffer allocated for that table.
C10_TableAccessInsideBuffer ==
    /\ oob = {}
    /\ pc = "R_walk_int" => ~Lt(W(Len(mem.int_copies)), loc.int_copies_size)
    /\ pc = "R_walk_ext" => ~Lt(W(Len(mem.ext_copies)), loc.ext_copies_size)

=============================================================================
